---- MODULE Spec2Model ----
(***************************************************************************)
(* Model of adapters/targetly-adapter.js: a bridge between one stdio child *)
(* process speaking newline-delimited JSON and any number of SSE sessions. *)
(*                                                                         *)
(* Text is modelled as sequences of one-character strings.  The child's    *)
(* stdout is a byte stream; the adapter decodes every chunk on its own     *)
(* with chunk.toString() (UTF-8).  Bytes below 0x80 are written as the     *)
(* character they encode; LEAD and CONT are the two bytes of one two-byte  *)
(* UTF-8 character (written EACUTE once decoded); a byte that does not     *)
(* form a complete character inside its chunk decodes to REPL (U+FFFD).    *)
(***************************************************************************)
EXTENDS Integers, Sequences, FiniteSets

\* ---------------------------------------------------------------- bounds
MaxSessions == 2    \* GET /sse requests served (distinct session ids)
MaxStreams == 1     \* of these, the most served while the child's output is explored
MaxLines == 2       \* lines the child writes to its stdout
MaxChunk == 3       \* largest stdout chunk, in bytes
MaxPosts == 2       \* POST /messages requests served
MaxPings == 1       \* keep-alive timer firings

\* ------------------------------------------------------------ characters
NL == "\n"
SP == " "
QUOTE == "\""
BSLASH == "\\"
LEAD == "0xC3"
CONT == "0xA9"
EACUTE == "e'"
REPL == "U+FFFD"

IdPool == <<"u1", "u2", "u3", "u4", "u5", "u6">>
Ids == {IdPool[i] : i \in 1..MaxSessions}
NoId == "undefined"     \* req.query.session_id when the parameter is absent
Stale == "u0"           \* an id the adapter never issued

\* exit codes of the child; code is null when a signal ended it
NullCode == -1          \* code is null
NotExited == -2         \* process.exit has not been called
ExitCodes == {NullCode, 0, 1, 2}

Last(s) == s[Len(s)]
Front(s) == SubSeq(s, 1, Len(s) - 1)

\* ------------------------------------------------------- string helpers
\* chunk.toString(): UTF-8 decoding of one chunk, on its own
RECURSIVE ChunkToString(_)
ChunkToString(bs) ==
    IF bs = <<>> THEN <<>>
    ELSE IF Head(bs) = LEAD
         THEN IF Len(bs) >= 2 /\ bs[2] = CONT
              THEN <<EACUTE>> \o ChunkToString(SubSeq(bs, 3, Len(bs)))
              ELSE <<REPL>> \o ChunkToString(Tail(bs))
         ELSE IF Head(bs) = CONT
              THEN <<REPL>> \o ChunkToString(Tail(bs))
              ELSE <<Head(bs)>> \o ChunkToString(Tail(bs))

\* String.prototype.split("\n"): always at least one element
RECURSIVE Split(_)
Split(s) ==
    IF \A i \in 1..Len(s) : s[i] # NL
    THEN <<s>>
    ELSE LET i == CHOOSE k \in 1..Len(s) :
                      s[k] = NL /\ \A j \in 1..(k - 1) : s[j] # NL
         IN  <<SubSeq(s, 1, i - 1)>> \o Split(SubSeq(s, i + 1, Len(s)))

IsSpace(c) == c = SP \/ c = NL

\* String.prototype.trim()
RECURSIVE Trim(_)
Trim(s) ==
    IF s = <<>> THEN <<>>
    ELSE IF IsSpace(Head(s)) THEN Trim(Tail(s))
    ELSE IF IsSpace(Last(s)) THEN Trim(Front(s))
    ELSE s

\* JSON.parse(line) does not throw.  Over the model's characters a JSON text
\* is optional white space around a number (digits) or a string literal.
JsonParseOk(line) ==
    LET t == Trim(line)
    IN  /\ t # <<>>
        /\ \/ \A i \in 1..Len(t) : t[i] = "1"
           \/ /\ Len(t) >= 2
              /\ t[1] = QUOTE
              /\ t[Len(t)] = QUOTE
              /\ \A i \in 2..(Len(t) - 1) : t[i] \notin {QUOTE, BSLASH, NL}

\* the escaping JSON.stringify applies inside a string literal
RECURSIVE Escape(_)
Escape(s) ==
    IF s = <<>> THEN <<>>
    ELSE (IF Head(s) = NL THEN <<BSLASH, "n">>
          ELSE IF Head(s) \in {QUOTE, BSLASH} THEN <<BSLASH, Head(s)>>
          ELSE <<Head(s)>>) \o Escape(Tail(s))

\* JSON.stringify of the parsed body, modelled as the array [ "<val>" ]
Stringify(val) == <<"[", QUOTE>> \o Escape(val) \o <<QUOTE, "]">>

\* ------------------------------------------------------------- the state
VARIABLES
    alive,        \* the adapter process has not called process.exit
    spawnFailed,  \* the child's "error" event has been handled: no child runs
    exitStatus,   \* the status passed to process.exit, NotExited before
    childCode,    \* the code of the child's "exit" event, NotExited before
    sessions,     \* keys of the sessions Map (each maps to its own res)
    used,         \* ids crypto.randomUUID has returned so far
    buffer,       \* the framer's pending fragment (decoded text)
    childOut,     \* every byte the child has written to its stdout
    delivered,    \* how many of those bytes have arrived in "data" chunks
    dispatched,   \* lines that passed the trim test, in order
    stream,       \* per id: the res.write calls made on its response
    chan,         \* per id: "unused", "open", "broken" (close pending), "closed"
    timers,       \* ids whose setInterval is active
    pings,        \* timer firings so far
    stdin,        \* the child.stdin.write calls, in order
    posts,        \* POST /messages requests handled so far
    resp,         \* the last POST /messages: its request and its response
    transport     \* SDK-transport variants: the id of the transport held by
                  \* `transport`, NoId while it is null

vars == <<alive, spawnFailed, exitStatus, childCode, sessions, used, buffer, childOut, delivered,
          dispatched, stream, chan, timers, pings, stdin, posts, resp, transport>>

\* lines the child writes (bytes, without the terminating newline)
ChildLines ==
    { <<"1">>,                          \* a JSON number
      <<QUOTE, LEAD, CONT, QUOTE>>,     \* a JSON string holding one two-byte character
      <<"x">>,                          \* not JSON
      <<SP>> }                          \* a blank line

\* request bodies after express.json / express.text
ObjectBody(v) == [type |-> "object", val |-> v]
TextBody(v) == [type |-> "string", val |-> v]
Bodies ==
    { ObjectBody(<<"a", NL>>), TextBody(<<"1">>), TextBody(<<"1", NL, "1">>) }

NoResp == [status |-> 0, sid |-> NoId, body |-> TextBody(<<>>)]

Init ==
    /\ alive = TRUE
    /\ spawnFailed = FALSE
    /\ exitStatus = NotExited
    /\ childCode = NotExited
    /\ sessions = {}
    /\ used = {}
    /\ buffer = <<>>
    /\ childOut = <<>>
    /\ delivered = 0
    /\ dispatched = <<>>
    /\ stream = [i \in Ids |-> <<>>]
    /\ chan = [i \in Ids |-> "unused"]
    /\ timers = {}
    /\ pings = 0
    /\ stdin = <<>>
    /\ posts = 0
    /\ resp = NoResp
    /\ transport = NoId

\* ---------------------------------------------------------- SSE framing
Frame(k, v) == [k |-> k, v |-> v]
EventMessage == Frame("event", <<"message">>)
EventEndpoint == Frame("event", <<"endpoint">>)
PingFrame == Frame("comment", <<"ping">>)
DataFrame(v) == Frame("data", v)

\* mutant of EndpointFrames: the endpoint URL without the session id
EndpointFramesNoId(id) == <<EventEndpoint, DataFrame(<<"/messages">>)>>

\* lines 138-139
EndpointFrames(id) == <<EventEndpoint, DataFrame(<<"/messages?session_id=", id>>)>>

\* lines 100-101
MessageFrames(line) == <<EventMessage, DataFrame(line)>>

\* res.write(f) on the response of session id: the call is recorded; when the
\* socket is already destroyed (chan[id] = "broken") the data goes nowhere
WriteAll(st, id, fs) == [st EXCEPT ![id] = @ \o fs]

\* ------------------------------------------------------------ the child
Pipe == SubSeq(childOut, delivered + 1, Len(childOut))
LinesWritten == Cardinality({i \in 1..Len(childOut) : childOut[i] = NL})

\* lines 72-74: child.on("error"), the handler of a failed spawn.  Node emits
\* the event on the tick after spawn(), before any request is served; the
\* handler logs the error and returns
ChildError ==
    /\ alive
    /\ ~spawnFailed
    /\ used = {} /\ posts = 0 /\ childOut = <<>>
    /\ spawnFailed' = TRUE
    /\ UNCHANGED <<transport, alive, exitStatus, childCode, sessions, used, buffer,
                   childOut, delivered, dispatched, stream, chan, timers,
                   pings, stdin, posts, resp>>

\* the child writes one more line to its stdout
ChildWrite(l) ==
    /\ alive
    /\ ~spawnFailed
    /\ LinesWritten < MaxLines
    /\ childOut' = childOut \o l \o <<NL>>
    /\ UNCHANGED <<transport, spawnFailed, alive, exitStatus, childCode, sessions, used, buffer,
                   delivered, dispatched, stream, chan, timers, pings,
                   stdin, posts, resp>>

\* line 92: the lines that are handed on
RECURSIVE NonBlank(_)
NonBlank(ls) ==
    IF ls = <<>> THEN <<>>
    ELSE (IF Trim(Head(ls)) = <<>> THEN <<>> ELSE <<Head(ls)>>) \o NonBlank(Tail(ls))

\* mutant of Broadcast: lines are relayed without the JSON.parse test
RECURSIVE BroadcastUnchecked(_)
BroadcastUnchecked(ls) ==
    IF ls = <<>> THEN <<>>
    ELSE MessageFrames(Head(ls)) \o BroadcastUnchecked(Tail(ls))

\* mutant of Broadcast: the event lines of a pass are written before its
\* data lines
RECURSIVE EventsOf(_)
EventsOf(ls) ==
    IF ls = <<>> THEN <<>>
    ELSE (IF JsonParseOk(Head(ls)) THEN <<EventMessage>> ELSE <<>>) \o EventsOf(Tail(ls))
RECURSIVE DataOf(_)
DataOf(ls) ==
    IF ls = <<>> THEN <<>>
    ELSE (IF JsonParseOk(Head(ls)) THEN <<DataFrame(Head(ls))>> ELSE <<>>) \o DataOf(Tail(ls))
BroadcastEventsFirst(ls) == EventsOf(ls) \o DataOf(ls)

\* lines 94-106: what one broadcast pass writes on every session's response
RECURSIVE Broadcast(_)
Broadcast(ls) ==
    IF ls = <<>> THEN <<>>
    ELSE (IF JsonParseOk(Head(ls)) THEN MessageFrames(Head(ls)) ELSE <<>>)
         \o Broadcast(Tail(ls))

\* lines 86-108: child.stdout.on("data")
StdoutData(n) ==
    /\ alive
    /\ n \in 1..MaxChunk
    /\ n <= Len(Pipe)
    /\ LET chunk == SubSeq(Pipe, 1, n)
           text == buffer \o ChunkToString(chunk)
           lines == Split(text)
           handed == NonBlank(Front(lines))
           frames == Broadcast(handed)
       IN  /\ buffer' = Last(lines)
           /\ dispatched' = dispatched \o handed
           /\ stream' = [i \in Ids |-> IF i \in sessions
                                       THEN stream[i] \o frames ELSE stream[i]]
    /\ delivered' = delivered + n
    /\ UNCHANGED <<transport, spawnFailed, alive, exitStatus, childCode, sessions, used, childOut,
                   chan, timers, pings, stdin, posts, resp>>

\* line 78: code || 1
ExitStatus(code) == IF code = NullCode \/ code = 0 THEN 1 ELSE code

\* lines 76-79: child.on("exit"); a child that failed to spawn emits "error"
\* and no "exit"
ChildExit(code) ==
    /\ alive
    /\ ~spawnFailed
    /\ alive' = FALSE
    /\ exitStatus' = ExitStatus(code)
    /\ childCode' = code
    /\ UNCHANGED <<transport, spawnFailed, sessions, used, buffer, childOut, delivered, dispatched,
                   stream, chan, timers, pings, stdin, posts, resp>>

\* ------------------------------------------------------- the HTTP routes
\* mutant of RandomUUID: the generator repeats itself
RandomUUIDRepeats == IdPool[1]

\* line 127: crypto.randomUUID() returns a value it has not returned before;
\* which one is immaterial, so the pool is handed out in order
RandomUUID == IdPool[Cardinality(used) + 1]

\* mutant of GetSse: no keep-alive timer is started
GetSseNoTimer(id) ==
    /\ alive
    /\ Cardinality(used) < MaxSessions
    /\ id = RandomUUID
    /\ used' = used \cup {id}
    /\ sessions' = sessions \cup {id}
    /\ chan' = [chan EXCEPT ![id] = "open"]
    /\ stream' = WriteAll(stream, id, EndpointFrames(id))
    /\ UNCHANGED <<transport, spawnFailed, alive, exitStatus, childCode, buffer, childOut,
                   delivered, dispatched, timers, pings, stdin, posts, resp>>

\* lines 126-151: app.get("/sse")
GetSse(id) ==
    /\ alive
    /\ Cardinality(used) < MaxSessions
    /\ id = RandomUUID
    /\ used' = used \cup {id}
    /\ sessions' = sessions \cup {id}
    /\ chan' = [chan EXCEPT ![id] = "open"]
    /\ stream' = WriteAll(stream, id, EndpointFrames(id))
    /\ timers' = timers \cup {id}
    /\ UNCHANGED <<transport, spawnFailed, alive, exitStatus, childCode, buffer, childOut,
                   delivered, dispatched, pings, stdin, posts, resp>>

\* lines 142-144: the setInterval callback of session id
Ping(id) ==
    /\ alive
    /\ id \in timers
    /\ pings < MaxPings
    /\ pings' = pings + 1
    /\ stream' = WriteAll(stream, id, <<PingFrame>>)
    /\ UNCHANGED <<transport, spawnFailed, alive, exitStatus, childCode, sessions, used, buffer,
                   childOut, delivered, dispatched, chan, timers, stdin,
                   posts, resp>>

\* mutant of SessionsDelete: a removal that raises when the key is absent
SessionsDeleteStrict(m, id) == [map |-> m \ {id}, threw |-> id \notin m]

\* line 148: sessions.delete(sessionId).  Map.prototype.delete removes the
\* entry of the key when there is one and never throws
SessionsDelete(m, id) == [map |-> m \ {id}, threw |-> FALSE]

\* the client of session id goes away (or its socket fails): the socket is
\* destroyed, the "close" event of the request is still to be delivered
Disconnect(id) ==
    /\ alive
    /\ chan[id] = "open"
    /\ chan' = [chan EXCEPT ![id] = "broken"]
    /\ UNCHANGED <<transport, spawnFailed, alive, exitStatus, childCode, sessions, used, buffer,
                   childOut, delivered, dispatched, stream, timers, pings,
                   stdin, posts, resp>>

\* mutant of CloseHandler: the interval is not cleared
CloseHandlerKeepsTimer(id) ==
    /\ alive
    /\ chan[id] = "broken"
    /\ chan' = [chan EXCEPT ![id] = "closed"]
    /\ sessions' = sessions \ {id}
    /\ UNCHANGED <<transport, spawnFailed, alive, exitStatus, childCode, used, buffer, childOut,
                   delivered, dispatched, stream, timers, pings, stdin,
                   posts, resp>>

\* mutant of CloseHandler: the entry is left in the registry
CloseHandlerKeepsEntry(id) ==
    /\ alive
    /\ chan[id] = "broken"
    /\ chan' = [chan EXCEPT ![id] = "closed"]
    /\ timers' = timers \ {id}
    /\ UNCHANGED <<transport, spawnFailed, alive, exitStatus, childCode, sessions, used,
                   buffer, childOut, delivered, dispatched, stream, pings,
                   stdin, posts, resp>>

\* lines 146-150: req.on("close")
CloseHandler(id) ==
    /\ alive
    /\ chan[id] = "broken"
    /\ chan' = [chan EXCEPT ![id] = "closed"]
    /\ timers' = timers \ {id}
    /\ sessions' = SessionsDelete(sessions, id).map
    /\ UNCHANGED <<transport, spawnFailed, alive, exitStatus, childCode, used, buffer, childOut,
                   delivered, dispatched, stream, pings, stdin, posts, resp>>

\* mutant of ValidSession: only the presence of the parameter is tested
ValidSessionPresent(sid) == sid # NoId

\* line 157: the guard of the POST route
ValidSession(sid) == sid # NoId /\ sid \in sessions

\* lines 162-165
Serialize(body) == IF body.type = "object" THEN Stringify(body.val) ELSE body.val

\* mutant of StdinLine: the terminator is left out
StdinLineNoNewline(body) == Serialize(body)

\* line 169: the argument of child.stdin.write
StdinLine(body) == Serialize(body) \o <<NL>>

\* mutant of StdinWrite: the newest write overtakes the ones before it
StdinWriteFront(q, line) == <<line>> \o q

\* line 169: child.stdin.write queues its argument behind the earlier writes
StdinWrite(q, line) == Append(q, line)

\* lines 154-171: app.post("/messages")
PostMessages(sid, body) ==
    /\ alive
    /\ posts < MaxPosts
    /\ posts' = posts + 1
    /\ IF ValidSession(sid)
       THEN /\ stdin' = StdinWrite(stdin, StdinLine(body))
            /\ resp' = [status |-> 202, sid |-> sid, body |-> body]
       ELSE /\ stdin' = stdin
            /\ resp' = [status |-> 400, sid |-> sid, body |-> body]
    /\ UNCHANGED <<transport, spawnFailed, alive, exitStatus, childCode, sessions, used, buffer,
                   childOut, delivered, dispatched, stream, chan, timers,
                   pings>>

Sids == Ids \cup {NoId, Stale}

\* The two directions of the bridge meet in the registry only: the stdout
\* handler never reads what the POST route writes (stdin, posts, resp) and the
\* POST route never reads the framer.  Each direction is explored with the
\* session life cycle, in a specification of its own.

\* child output towards the sessions
NextOut ==
    \/ \E l \in ChildLines : ChildWrite(l)
    \/ \E n \in 1..MaxChunk : StdoutData(n)
    \/ \E id \in Ids : Cardinality(used) < MaxStreams /\ GetSse(id)
    \/ \E id \in Ids : Ping(id)
    \/ \E id \in Ids : Disconnect(id)
    \/ \E id \in Ids : CloseHandler(id)

SpecOut == Init /\ [][NextOut]_vars

\* requests towards the child
NextIn ==
    \/ ChildError
    \/ \E code \in ExitCodes : ChildExit(code)
    \/ \E id \in Ids : GetSse(id)
    \/ \E id \in Ids : Ping(id)
    \/ \E id \in Ids : Disconnect(id)
    \/ \E id \in Ids : CloseHandler(id)
    \/ \E sid \in Sids, body \in Bodies : PostMessages(sid, body)

SpecIn == Init /\ [][NextIn]_vars

\* ------------------------------------------- the SDK-transport variants
\* unnamed/part_000 (and part_001, the same routes inside an async function)
\* keep one variable `transport` instead of a registry.  A transport is named
\* by the id the SDK gives it; stream[id] and chan[id] are the writes on, and
\* the state of, the response it was built on.  SSEServerTransport belongs
\* to @modelcontextprotocol/sdk: start() writes the SDK's own endpoint event
\* and listens for the response's "close", after which the transport is not
\* connected; send() and handlePostMessage() fail on a transport that is not
\* connected.

\* the transport holds a response (its "close" has not been handled)
Connected(t) == t # NoId /\ chan[t] \in {"open", "broken"}

\* part_000 line 109: what transport.start() writes
SdkEndpointFrames(id) == <<EventEndpoint, DataFrame(<<"/messages?sessionId=", id>>)>>

\* part_000 lines 112-113
AdapterEndpointFrames == <<EventEndpoint, DataFrame(<<"/messages">>)>>

\* part_000 lines 99-115: app.get("/sse"); the code after the await runs
\* before any other callback
SdkGetSse(id) ==
    /\ alive
    /\ Cardinality(used) < MaxSessions
    /\ id = RandomUUID
    /\ used' = used \cup {id}
    /\ transport' = id
    /\ chan' = [chan EXCEPT ![id] = "open"]
    /\ stream' = WriteAll(stream, id, SdkEndpointFrames(id) \o AdapterEndpointFrames)
    /\ UNCHANGED <<spawnFailed, alive, exitStatus, childCode, sessions, buffer,
                   childOut, delivered, dispatched, timers, pings, stdin, posts,
                   resp>>

\* the "close" listener the SDK puts on the response in start()
SdkClose(id) ==
    /\ alive
    /\ chan[id] = "broken"
    /\ chan' = [chan EXCEPT ![id] = "closed"]
    /\ UNCHANGED <<transport, spawnFailed, alive, exitStatus, childCode, sessions,
                   used, buffer, childOut, delivered, dispatched, stream, timers,
                   pings, stdin, posts, resp>>

\* part_000 line 136: JSON.parse(line), then JSON.stringify inside send(): over
\* the model's JSON texts this strips the white space around the value
Reserialize(line) == Trim(line)

\* part_000 lines 133-144: what one pass over the lines makes send() write
RECURSIVE SdkForward(_)
SdkForward(ls) ==
    IF ls = <<>> THEN <<>>
    ELSE (IF JsonParseOk(Head(ls)) THEN MessageFrames(Reserialize(Head(ls))) ELSE <<>>)
         \o SdkForward(Tail(ls))

\* a rejected promise nobody handles ends the process (exit status 1) or is
\* only reported, depending on the Node version
Rejection(happens) ==
    /\ alive' \in (IF happens THEN {TRUE, FALSE} ELSE {TRUE})
    /\ exitStatus' = (IF alive' THEN exitStatus ELSE 1)

\* mutant of Recipients: every connected transport is sent the message
RecipientsAll == {i \in Ids : Connected(i)}

\* part_000 lines 137-139: if (transport) transport.send(message)
Recipients == IF transport = NoId THEN {} ELSE {transport}

\* part_000 lines 128-148: child.stdout.on("data"); send() writes on the
\* response of a connected transport and rejects on one that is not
SdkStdoutData(n) ==
    /\ alive
    /\ n \in 1..MaxChunk
    /\ n <= Len(Pipe)
    /\ LET chunk == SubSeq(Pipe, 1, n)
           text == buffer \o ChunkToString(chunk)
           lines == Split(text)
           handed == NonBlank(Front(lines))
           frames == SdkForward(handed)
       IN  /\ buffer' = Last(lines)
           /\ dispatched' = dispatched \o handed
           /\ stream' = [i \in Ids |-> IF i \in Recipients /\ Connected(i)
                                       THEN stream[i] \o frames ELSE stream[i]]
           /\ Rejection(frames # <<>> /\ \E i \in Recipients : ~Connected(i))
    /\ delivered' = delivered + n
    /\ UNCHANGED <<transport, spawnFailed, childCode, sessions, used, childOut,
                   chan, timers, pings, stdin, posts, resp>>

\* request bodies as the SDK reads them off the request: a message, and a
\* text that is no JSON
SdkBodies == { <<SP, "1">>, <<"x">> }

\* part_000 lines 117-124: app.post("/messages").  handlePostMessage answers
\* 500 and throws on a transport that is not connected, answers 400 to a body
\* it cannot parse, and otherwise hands the message to onmessage (lines
\* 104-107) and answers 202
SdkPostMessages(body) ==
    /\ alive
    /\ posts < MaxPosts
    /\ posts' = posts + 1
    /\ IF transport = NoId
       THEN /\ stdin' = stdin
            /\ resp' = [status |-> 404, sid |-> NoId, body |-> TextBody(body)]
            /\ Rejection(FALSE)
       ELSE IF ~Connected(transport)
       THEN /\ stdin' = stdin
            /\ resp' = [status |-> 500, sid |-> NoId, body |-> TextBody(body)]
            /\ Rejection(TRUE)
       ELSE IF JsonParseOk(body)
       THEN /\ stdin' = StdinWrite(stdin, Reserialize(body) \o <<NL>>)
            /\ resp' = [status |-> 202, sid |-> NoId, body |-> TextBody(body)]
            /\ Rejection(FALSE)
       ELSE /\ stdin' = stdin
            /\ resp' = [status |-> 400, sid |-> NoId, body |-> TextBody(body)]
            /\ Rejection(FALSE)
    /\ UNCHANGED <<transport, spawnFailed, childCode, sessions, used, buffer,
                   childOut, delivered, dispatched, stream, chan, timers, pings>>

\* child output towards the current transport
NextSdkOut ==
    \/ \E l \in ChildLines : ChildWrite(l)
    \/ \E n \in 1..MaxChunk : SdkStdoutData(n)
    \/ \E id \in Ids : SdkGetSse(id)
    \/ \E id \in Ids : Disconnect(id)
    \/ \E id \in Ids : SdkClose(id)

SpecSdkOut == Init /\ [][NextSdkOut]_vars

\* requests towards the child
NextSdkIn ==
    \/ \E id \in Ids : SdkGetSse(id)
    \/ \E id \in Ids : Disconnect(id)
    \/ \E id \in Ids : SdkClose(id)
    \/ \E body \in SdkBodies : SdkPostMessages(body)

SpecSdkIn == Init /\ [][NextSdkIn]_vars

\* ================================================================ claims
\* What the child wrote, taken as one stream: the complete lines among the
\* first n bytes of out, decoded after concatenation.
RefLines(out, n) == Front(Split(ChunkToString(SubSeq(out, 1, n))))

\* bytes delivered after the last newline delivered
RECURSIVE TailBytes(_, _)
TailBytes(out, n) ==
    IF n = 0 \/ out[n] = NL THEN 0 ELSE 1 + TailBytes(out, n - 1)

\* the lines of after that follow the lines of before
Completed(before, after) == SubSeq(after, Len(before) + 1, Len(after))

RECURSIVE ValidOnly(_)
ValidOnly(ls) ==
    IF ls = <<>> THEN <<>>
    ELSE (IF JsonParseOk(Head(ls)) THEN <<Head(ls)>> ELSE <<>>) \o ValidOnly(Tail(ls))

\* the frames of one `message` event per line
RECURSIVE MessageEvents(_)
MessageEvents(ls) ==
    IF ls = <<>> THEN <<>>
    ELSE <<Frame("event", <<"message">>), Frame("data", Head(ls))>>
         \o MessageEvents(Tail(ls))

Appended(i) == SubSeq(stream'[i], Len(stream[i]) + 1, Len(stream'[i]))
MessageCount(fs) == Cardinality({k \in 1..Len(fs) : fs[k] = Frame("event", <<"message">>)})
IsPrefix(a, b) == Len(a) <= Len(b) /\ SubSeq(b, 1, Len(a)) = a

\* number of bytes a decoded text came from
RECURSIVE ByteLen(_)
ByteLen(t) ==
    IF t = <<>> THEN 0 ELSE (IF Head(t) = EACUTE THEN 2 ELSE 1) + ByteLen(Tail(t))

\* C1: when a chunk completes lines of the child's output, every session whose
\* stream is open gets, appended to its stream and in the child's order,
\* exactly one `message` event per valid JSON line, carrying that line.
C1_BroadcastEveryLine ==
    [][delivered' > delivered =>
         \A before \in {RefLines(childOut, delivered)},
            after \in {RefLines(childOut, delivered')} :
           \A i \in sessions :
             chan[i] = "open" =>
                 Appended(i) = MessageEvents(ValidOnly(Completed(before, after)))]_vars

\* C5: a line that is not JSON produces no event on any stream and changes
\* neither the registry nor what the framing buffer retains (exactly the bytes
\* after the last newline); the valid lines around it, later ones included,
\* still produce one `message` event each on every registered session, and
\* no `data:` frame ever carries a line that is not JSON.
C5_MalformedLineIsolated ==
    [][delivered' > delivered =>
         \A before \in {RefLines(childOut, delivered)},
            after \in {RefLines(childOut, delivered')} :
           \A valid \in {ValidOnly(Completed(before, after))} :
             /\ sessions' = sessions
             /\ ByteLen(buffer') = TailBytes(childOut, delivered')
             /\ \A i \in Ids : \A new \in {Appended(i)} :
                   /\ IsPrefix(stream[i], stream'[i])
                   /\ MessageCount(new) = (IF i \in sessions THEN Len(valid) ELSE 0)
                   /\ Len(new) = 2 * MessageCount(new)
                   /\ \A k \in 1..Len(new) :
                         new[k].k = "data" => JsonParseOk(new[k].v)]_vars

\* C5 witness: a malformed line was dropped and the next, valid line reached
\* a session
C5_Witness ==
    \E i \in sessions :
        /\ dispatched = <<<<"x">>, <<"1">>>>
        /\ stream[i] = EndpointFrames(i) \o MessageEvents(<<<<"1">>>>)

\* C6: once the close of a session has been handled, no write is made on its
\* response any more (no message event, no ping), and it stays closed.
C6_NoWriteAfterClose ==
    [][\A i \in Ids : chan[i] = "closed" =>
           stream'[i] = stream[i] /\ chan'[i] = "closed"]_vars

\* C6 witness: two valid lines were dispatched; the session got the first,
\* closed, and has nothing of the second
C6_Witness ==
    \E i \in Ids :
        /\ chan[i] = "closed"
        /\ Len(dispatched) = 2
        /\ \A k \in 1..2 : JsonParseOk(dispatched[k])
        /\ stream[i] = EndpointFrames(i) \o MessageEvents(<<dispatched[1]>>)

C8_ChunkingInvariance ==
    dispatched = NonBlank(RefLines(childOut, delivered))

\* the POST handled by the current step
Posted == posts' = posts + 1
Known(sid) == sid \in Ids /\ sid \in sessions
OneLine(w) == Len(w) >= 1 /\ \A k \in 1..Len(w) : (w[k] = NL) <=> (k = Len(w))

C3_RejectedPostTouchesNothing ==
    [][(Posted /\ ~Known(resp'.sid)) =>
         /\ resp'.status = 400
         /\ stdin' = stdin
         /\ sessions' = sessions
         /\ stream' = stream
         /\ chan' = chan
         /\ timers' = timers]_vars

\* C3 witness: two POSTs, the last one with an id the adapter never issued,
\* were rejected while a session was open
C3_Witness ==
    /\ posts = 2
    /\ resp.status = 400
    /\ resp.sid = Stale
    /\ stdin = <<>>
    /\ sessions # {}

\* C4: the stream of every session starts with the `endpoint` event whose
\* data is /messages?session_id=<id>, <id> being the key it is registered
\* under; a session that has not been opened has no stream; a POST carrying
\* the id of a session whose close has not been handled is accepted.
C4_EndpointFirst ==
    /\ [](\A i \in Ids :
            /\ i \in sessions => chan[i] \in {"open", "broken"}
            /\ chan[i] \in {"open", "broken"} => i \in sessions
            /\ IF chan[i] = "unused"
               THEN stream[i] = <<>>
               ELSE /\ Len(stream[i]) >= 2
                    /\ stream[i][1] = Frame("event", <<"endpoint">>)
                    /\ stream[i][2] = Frame("data", <<"/messages?session_id=", i>>))
    /\ [][(Posted /\ resp'.sid \in Ids /\ chan[resp'.sid] \in {"open", "broken"}) =>
            resp'.status = 202]_vars

\* C4 witness: a POST with the id of the endpoint event was accepted on a
\* session that has also been sent a ping
C4_Witness ==
    \E i \in sessions :
        /\ resp.status = 202
        /\ resp.sid = i
        /\ stream[i] = EndpointFrames(i) \o <<PingFrame>>

\* C9: every write on the child's stdin is one line: it ends with a newline
\* and holds no other newline.
C9_OneLinePerWrite ==
    \A k \in 1..Len(stdin) : OneLine(stdin[k])

\* C10: after the child's exit the adapter has exited with the child's code,
\* or with 1 when there was none, and before it the adapter has not exited.
C10_ExitWithChildCode ==
    /\ alive => exitStatus = NotExited /\ childCode = NotExited
    /\ ~alive => exitStatus = (IF childCode = NullCode THEN 1 ELSE childCode)

\* C11: once the child's "error" event (a failed spawn) has been handled the
\* adapter serves nothing more: no GET /sse and no POST /messages is handled.
C11_SpawnErrorAborts ==
    [][spawnFailed => (used' = used /\ posts' = posts /\ sessions' = sessions)]_vars

C13_WritesInHandlerOrder ==
    [][/\ Len(stdin') <= Len(stdin) + 1
       /\ SubSeq(stdin', 1, Len(stdin)) = stdin
       /\ stdin' # stdin =>
            /\ Posted
            /\ resp'.status = 202
            /\ Last(stdin') = Serialize(resp'.body) \o <<NL>>
       /\ (Posted /\ resp'.status = 202) => Len(stdin') = Len(stdin) + 1]_vars

\* C13 witness: two different bodies were accepted while two sessions were
\* registered, and stdin holds their lines in the order of the handlers
C13_Witness ==
    /\ Cardinality(sessions) = 2
    /\ Len(stdin) = 2
    /\ stdin[1] = <<"1", NL>>
    /\ stdin[2] = Stringify(<<"a", NL>>) \o <<NL>>
    /\ resp.status = 202
    /\ resp.body = ObjectBody(<<"a", NL>>)

\* C14: a POST handled when no child runs (its spawn failed) is not answered
\* with the accepted status 202.
C14_NoChildNoAccept ==
    spawnFailed => resp.status # 202

\* C15: a POST carrying the id of a session whose close has been handled is
\* answered 400 and makes no write on the child's stdin, whichever other
\* sessions are registered.
C15_PostAfterCloseRejected ==
    [][\A i \in Ids :
           (Posted /\ resp'.sid = i /\ chan[i] = "closed") =>
               /\ resp'.status = 400
               /\ stdin' = stdin]_vars

\* C15 witness: the POST of a closed session was rejected while another
\* session was registered, after one POST had been accepted
C15_Witness ==
    \E i, j \in Ids :
        /\ chan[i] = "closed"
        /\ j \in sessions
        /\ posts = 2
        /\ resp.sid = i
        /\ resp.status = 400
        /\ Len(stdin) = 1

\* C16: a session only moves forward, from not yet opened to open, from open
\* to disconnected and from there to closed; a GET /sse (the step that writes
\* an endpoint event) registers an id that was never issued before and is in
\* no registry entry; a closed id stays closed and out of the registry.
C16_SessionsMoveForward ==
    [][\A i \in Ids :
           /\ chan'[i] # chan[i] =>
                <<chan[i], chan'[i]>> \in { <<"unused", "open">>,
                                           <<"open", "broken">>,
                                           <<"broken", "closed">> }
           /\ (Len(stream'[i]) > Len(stream[i]) /\ Last(stream'[i]) = Last(EndpointFrames(i))) =>
                /\ i \notin used
                /\ i \notin sessions
                /\ chan[i] = "unused"
                /\ used' = used \cup {i}
                /\ sessions' = sessions \cup {i}
           /\ (i \in sessions' /\ i \notin sessions) => i \notin used
           /\ chan[i] = "closed" => chan'[i] = "closed" /\ i \notin sessions']_vars

\* C16 witness: two GETs were served under two ids; the first session has
\* been closed and the second one is open
C16_Witness ==
    /\ used = {IdPool[1], IdPool[2]}
    /\ chan[IdPool[1]] = "closed"
    /\ chan[IdPool[2]] = "open"
    /\ sessions = {IdPool[2]}
    /\ stream[IdPool[2]] = EndpointFrames(IdPool[2])

\* C17: between handlers the sessions with an active keep-alive timer are
\* exactly the sessions in the registry; a timer is started in the step that
\* registers its session and cleared in the step that removes it, and no
\* other step starts or clears one.
C17_TimersMatchRegistry ==
    /\ [](timers = sessions)
    /\ [][\A i \in Ids :
            /\ (i \in timers' /\ i \notin timers) <=> (i \in sessions' /\ i \notin sessions)
            /\ (i \in timers /\ i \notin timers') <=> (i \in sessions /\ i \notin sessions')
            /\ (i \in timers' /\ i \notin timers) => chan[i] = "unused"]_vars

\* C17 witness: the timer of a session fired, the session was closed and its
\* timer cleared, while the timer of a second session is still active
C17_Witness ==
    /\ chan[IdPool[1]] = "closed"
    /\ stream[IdPool[1]] = EndpointFrames(IdPool[1]) \o <<PingFrame>>
    /\ timers = {IdPool[2]}
    /\ sessions = {IdPool[2]}

\* a stream in which every `event:` write is directly followed by its `data:`
\* write and every `data:` write directly follows an `event:` write; the
\* endpoint event comes first and carries the URL of session i
WellFramed(i, fs) ==
    \A k \in 1..Len(fs) :
        /\ fs[k].k = "event" =>
             /\ k < Len(fs)
             /\ fs[k + 1].k = "data"
             /\ (fs[k] = Frame("event", <<"endpoint">>)) <=> (k = 1)
             /\ k = 1 => fs[2].v = <<"/messages?session_id=", i>>
             /\ k > 1 => fs[k] = Frame("event", <<"message">>) /\ JsonParseOk(fs[k + 1].v)
        /\ fs[k].k = "data" => k > 1 /\ fs[k - 1].k = "event"
        /\ fs[k].k \in {"event", "data", "comment"}

\* C18: on every session's stream, in every state between handlers, no ping
\* and no write of another frame stands between the `event:` line and the
\* `data:` line of an endpoint or message frame.
C18_FramesNotInterleaved ==
    \A i \in Ids : WellFramed(i, stream[i])

\* C18 witness: a stream holding the endpoint frame, a message, a ping and
\* another message, each frame whole
C18_Witness ==
    \E i \in sessions :
        stream[i] = EndpointFrames(i) \o MessageFrames(<<"1">>) \o <<PingFrame>>
                    \o MessageFrames(<<QUOTE, EACUTE, QUOTE>>)

\* C19: in the SDK-transport variants `transport` is the transport of the
\* most recent GET /sse (null before the first one).  A chunk of child output
\* writes its valid lines, one `message` event each, on the stream of that
\* transport only: every other stream, an earlier client's included, stays as
\* it was, and with no transport yet the lines are written nowhere.  A new
\* stream starts with the endpoint events alone, so nothing dispatched before
\* it reaches it, and no other step writes on any stream.
C19_OnlyCurrentTransport ==
    /\ [](transport = (IF used = {} THEN NoId ELSE IdPool[Cardinality(used)]))
    /\ [][/\ delivered' > delivered =>
              \A new \in {Completed(dispatched, dispatched')} :
                \A i \in Ids :
                  IF i = transport /\ chan[i] \in {"open", "broken"}
                  THEN /\ MessageCount(Appended(i)) = Len(ValidOnly(new))
                       /\ Len(Appended(i)) = 2 * Len(ValidOnly(new))
                       /\ SubSeq(stream'[i], 1, Len(stream[i])) = stream[i]
                  ELSE stream'[i] = stream[i]
          /\ \A i \in Ids :
               (chan[i] = "unused" /\ chan'[i] # "unused") =>
                   /\ MessageCount(stream'[i]) = 0
                   /\ Len(stream'[i]) = 4
                   /\ \A j \in Ids \ {i} : stream'[j] = stream[j]
          /\ (delivered' = delivered /\ used' = used) => stream' = stream]_vars

\* C19 witness: a valid line was dispatched before any GET and written
\* nowhere; two clients connected, the first is still open; the next message
\* went to the second client's stream only
C19_Witness ==
    /\ Len(dispatched) = 2
    /\ \A k \in 1..2 : JsonParseOk(dispatched[k])
    /\ used = {IdPool[1], IdPool[2]}
    /\ transport = IdPool[2]
    /\ chan[IdPool[1]] = "open"
    /\ MessageCount(stream[IdPool[1]]) = 0
    /\ MessageCount(stream[IdPool[2]]) = 1

\* C20: in the SDK-transport variants a POST /messages handled while no
\* client is connected (before the first GET /sse, or after the connected
\* client's close) is answered 404 and writes nothing on the child's stdin.
C20_NoConnectionIs404 ==
    [][(Posted /\ ~Connected(transport)) =>
         /\ resp'.status = 404
         /\ stdin' = stdin]_vars

====
